---- MODULE Spec2Model ----
(***************************************************************************)
(* Block cipher engine (encrypt_file / decrypt_file) and key-pair validity *)
(* check (KeyPair::is_valid) of the toy RSA crate.                         *)
(*                                                                         *)
(* A BigUint is modelled the way num_bigint stores it: a little-endian     *)
(* sequence of digits without high-order zero digits, zero being the empty *)
(* sequence.  The digits are bytes, so from_bytes_le / to_bytes_le are the *)
(* normalisation and the "zero is one 0x00 byte" rule of the library.      *)
(***************************************************************************)
EXTENDS Integers, Sequences, FiniteSets, TLC

(***************************************************************************)
(* Bounds of the model                                                     *)
(***************************************************************************)
\* longest source file, in bytes
MaxLen == 4

\* byte values the source files are made of (zero, an ASCII letter, 0xFF)
FileBytes == {0, 65, 255}

(***************************************************************************)
(* BigUint arithmetic                                                      *)
(***************************************************************************)
Byte == 0..255

\* number of digits of s[1..k] once its high-order zero digits are dropped
RECURSIVE SignificantLen(_, _)
SignificantLen(s, k) ==
    IF k = 0 THEN 0
    ELSE IF s[k] # 0 THEN k ELSE SignificantLen(s, k - 1)

\* s without its high-order zero digits
Normalize(s) == SubSeq(s, 1, SignificantLen(s, Len(s)))

\* BigUint::from(u64)
RECURSIVE FromInt(_)
FromInt(i) == IF i = 0 THEN <<>> ELSE <<i % 256>> \o FromInt(i \div 256)

\* value of a BigUint below 2^31 as a machine integer
RECURSIVE ToInt(_)
ToInt(x) == IF x = <<>> THEN 0 ELSE x[1] + 256 * ToInt(Tail(x))

RECURSIVE BitLen(_)
BitLen(b) == IF b = 0 THEN 0 ELSE 1 + BitLen(b \div 2)

\* BigUint::bits: number of bits of the value, 0 for zero
bits(x) == IF x = <<>> THEN 0 ELSE 8 * (Len(x) - 1) + BitLen(x[Len(x)])

Digit(x, i) == IF i <= Len(x) THEN x[i] ELSE 0

RECURSIVE LtFrom(_, _, _)
LtFrom(a, b, i) ==
    IF i = 0 THEN FALSE
    ELSE IF a[i] # b[i] THEN a[i] < b[i] ELSE LtFrom(a, b, i - 1)

\* a < b
Lt(a, b) ==
    IF Len(a) # Len(b) THEN Len(a) < Len(b) ELSE LtFrom(a, b, Len(a))

\* a <= b
Le(a, b) == ~Lt(b, a)

\* The multiplication modulo n works on digits of 24 bits: three bytes a limb.
LimbBase == 2 ^ 24

\* limb i of the bytes x
Limb(x, i) ==
    Digit(x, 3 * i - 2) + 256 * Digit(x, 3 * i - 1) + 65536 * Digit(x, 3 * i)

ToLimbs(x) == [i \in 1..((Len(x) + 2) \div 3) |-> Limb(x, i)]

\* byte i of the limbs l
LimbByte(l, i) == (l[((i - 1) \div 3) + 1] \div (256 ^ ((i - 1) % 3))) % 256

LimbBytes(l) == [i \in 1..(3 * Len(l)) |-> LimbByte(l, i)]

\* The operators below bind an intermediate result as the element of a
\* singleton set, which makes TLC compute it once, before it is used.

FromLimbs(l) ==
    CHOOSE r \in { Normalize(bs) : bs \in { LimbBytes(ll) : ll \in {l} } } : TRUE

RECURSIVE AddFrom(_, _, _, _)
AddFrom(a, b, i, carry) ==
    IF i > Len(a) /\ i > Len(b)
    THEN IF carry = 0 THEN <<>> ELSE <<carry>>
    ELSE LET s == Digit(a, i) + Digit(b, i) + carry
         IN  <<s % LimbBase>> \o AddFrom(a, b, i + 1, s \div LimbBase)

\* a + b on limbs
Add(a, b) == AddFrom(a, b, 1, 0)

RECURSIVE SubFrom(_, _, _, _)
SubFrom(a, b, i, borrow) ==
    IF i > Len(a) THEN <<>>
    ELSE LET s == a[i] - Digit(b, i) - borrow
         IN  <<s % LimbBase>> \o SubFrom(a, b, i + 1, IF s < 0 THEN 1 ELSE 0)

\* a - b on limbs, for a >= b
Sub(a, b) == CHOOSE r \in { Normalize(d) : d \in {SubFrom(a, b, 1, 0)} } : TRUE

\* r mod n, for r < 2n
Reduce(r, n) == IF Lt(r, n) THEN r ELSE Sub(r, n)

\* (a + b) mod n, for a, b < n
AddMod(a, b, n) == CHOOSE r \in { Reduce(s, n) : s \in {Add(a, b)} } : TRUE

\* (2h + bit * a) mod n, for h, a < n
DoubleAdd(h, a, bit, n) ==
    CHOOSE r \in { IF bit = 1 THEN AddMod(d, a, n) ELSE d :
                   d \in {AddMod(h, h, n)} } : TRUE

\* bit i (0 = least significant) of the byte
ByteBit(byte, i) == (byte \div (2 ^ i)) % 2

\* (256h + byte * a) mod n, for h, a < n: eight doublings, high bit first
MulByte(h, a, byte, n) ==
    CHOOSE r \in
        { DoubleAdd(x1, a, ByteBit(byte, 0), n) : x1 \in
        { DoubleAdd(x2, a, ByteBit(byte, 1), n) : x2 \in
        { DoubleAdd(x3, a, ByteBit(byte, 2), n) : x3 \in
        { DoubleAdd(x4, a, ByteBit(byte, 3), n) : x4 \in
        { DoubleAdd(x5, a, ByteBit(byte, 4), n) : x5 \in
        { DoubleAdd(x6, a, ByteBit(byte, 5), n) : x6 \in
        { DoubleAdd(x7, a, ByteBit(byte, 6), n) : x7 \in
        { DoubleAdd(x8, a, ByteBit(byte, 7), n) : x8 \in {h} } } } } } } } } : TRUE

\* a * (b without its i - 1 low bytes) mod n, for a < n; a, n and the result
\* are limbs, b is bytes
RECURSIVE MulModFrom(_, _, _, _)
MulModFrom(a, b, n, i) ==
    IF i > Len(b) THEN <<>>
    ELSE CHOOSE r \in { MulByte(h, a, b[i], n) :
                        h \in {MulModFrom(a, b, n, i + 1)} } : TRUE

\* a mod n
Mod(a, n) ==
    IF Lt(a, n) THEN a
    ELSE CHOOSE r \in { FromLimbs(MulModFrom(<<1>>, a, ln, 1)) :
                        ln \in {ToLimbs(n)} } : TRUE

\* a * b mod n on machine integers, b taken in digits of the given base,
\* for a, b < n and base * n <= 2^30
RECURSIVE MulModInt(_, _, _, _)
MulModInt(a, b, n, base) ==
    IF b = 0 THEN 0
    ELSE (base * MulModInt(a, b \div base, n, base) + (b % base) * a) % n

\* a * b mod n, for a, b < n; moduli below 2^29 use machine integers
MulMod(a, b, n) ==
    IF bits(n) <= 29
    THEN CHOOSE r \in { FromInt(p) : p \in
                       { MulModInt(x, y, m, base) :
                         x \in {ToInt(a)}, y \in {ToInt(b)}, m \in {ToInt(n)},
                         base \in {2 ^ (30 - bits(n))} } } : TRUE
    ELSE CHOOSE r \in { FromLimbs(MulModFrom(la, b, ln, 1)) :
                        la \in {ToLimbs(a)}, ln \in {ToLimbs(n)} } : TRUE

\* h^2 * base^bit mod n
SquareMul(h, base, bit, n) ==
    CHOOSE r \in { IF bit = 1 THEN MulMod(sq, base, n) ELSE sq :
                   sq \in {MulMod(h, h, n)} } : TRUE

\* h^256 * base^byte mod n: eight squarings, high bit first
PowByte(h, base, byte, n) ==
    CHOOSE r \in
        { SquareMul(x1, base, ByteBit(byte, 0), n) : x1 \in
        { SquareMul(x2, base, ByteBit(byte, 1), n) : x2 \in
        { SquareMul(x3, base, ByteBit(byte, 2), n) : x3 \in
        { SquareMul(x4, base, ByteBit(byte, 3), n) : x4 \in
        { SquareMul(x5, base, ByteBit(byte, 4), n) : x5 \in
        { SquareMul(x6, base, ByteBit(byte, 5), n) : x6 \in
        { SquareMul(x7, base, ByteBit(byte, 6), n) : x7 \in
        { SquareMul(x8, base, ByteBit(byte, 7), n) : x8 \in {h} } } } } } } } } : TRUE

\* base ^ (e without its i - 1 low bytes) mod n, for base < n
RECURSIVE PowFrom(_, _, _, _)
PowFrom(base, e, n, i) ==
    IF i > Len(e) THEN <<1>>
    ELSE CHOOSE r \in { PowByte(h, base, e[i], n) :
                        h \in {PowFrom(base, e, n, i + 1)} } : TRUE

\* BigUint::modpow asserts that the modulus is not zero
\* ("attempt to calculate with zero modulus!")
modpow_panics(n) == n = <<>>

\* BigUint::modpow, for a modulus other than zero
modpow(b, e, n) ==
    IF n = <<1>> THEN <<>>
    ELSE CHOOSE r \in { PowFrom(base, e, n, 1) : base \in {Mod(b, n)} } : TRUE

\* BigUint::from_bytes_le
from_bytes_le(buf) == Normalize(buf)

\* BigUint::to_bytes_le
to_bytes_le(x) == IF x = <<>> THEN <<0>> ELSE x

(***************************************************************************)
(* Key / KeyPair model (key/mod.rs)                                        *)
(***************************************************************************)
PublicKey == "PublicKey"
PrivateKey == "PrivateKey"
KeyVariant == {PublicKey, PrivateKey}

Key(exponent, modulus, variant) ==
    [exponent |-> exponent, modulus |-> modulus, variant |-> variant]

KeyPair(public_key, private_key) ==
    [public_key |-> public_key, private_key |-> private_key]

\* no key: the engine is not running
NoKey == [exponent |-> <<>>, modulus |-> <<>>, variant |-> "none"]

is_public(k) == k.variant = PublicKey

is_private(k) == k.variant = PrivateKey

\* crate::math::mod_pow is the exponentiation primitive of the engine: it
\* fails on the modulus zero as BigUint::modpow does
mod_pow_panics(modulus) == modpow_panics(modulus)

\* crate::math::mod_pow: base^exp mod modulus, for a modulus other than zero
mod_pow(base, exp, modulus) == modpow(base, exp, modulus)

\* the fixed test value of is_valid
plain_msg == 12345678

\* decoding with the public exponent: the pair is never found consistent
is_valid_same_exponent(kp) ==
    IF ~(/\ kp.public_key.variant = PublicKey
         /\ kp.private_key.variant = PrivateKey
         /\ kp.public_key.modulus = kp.private_key.modulus
         /\ Le(kp.public_key.exponent, kp.public_key.modulus))
    THEN "false"
    ELSE IF mod_pow_panics(kp.public_key.modulus) THEN "panic"
    ELSE LET encoded_msg == mod_pow(FromInt(plain_msg), kp.public_key.exponent,
                                    kp.public_key.modulus)
             decoded_msg == mod_pow(encoded_msg, kp.public_key.exponent,
                                    kp.private_key.modulus)
         IN  IF FromInt(plain_msg) = decoded_msg THEN "true" ELSE "false"

\* the exponent bound left out of the structural test
is_valid_no_exponent_bound(kp) ==
    IF ~(/\ kp.public_key.variant = PublicKey
         /\ kp.private_key.variant = PrivateKey
         /\ kp.public_key.modulus = kp.private_key.modulus)
    THEN "false"
    ELSE IF mod_pow_panics(kp.public_key.modulus) THEN "panic"
    ELSE LET encoded_msg == mod_pow(FromInt(plain_msg), kp.public_key.exponent,
                                    kp.public_key.modulus)
             decoded_msg == mod_pow(encoded_msg, kp.private_key.exponent,
                                    kp.private_key.modulus)
         IN  IF FromInt(plain_msg) = decoded_msg THEN "true" ELSE "false"

\* KeyPair::is_valid: "true" or "false" when it returns, "panic" when its
\* first call of mod_pow fails
is_valid(kp) ==
    IF ~(/\ kp.public_key.variant = PublicKey
         /\ kp.private_key.variant = PrivateKey
         /\ kp.public_key.modulus = kp.private_key.modulus
         /\ Le(kp.public_key.exponent, kp.public_key.modulus))
    THEN "false"
    ELSE IF mod_pow_panics(kp.public_key.modulus) THEN "panic"
    ELSE LET encoded_msg == mod_pow(FromInt(plain_msg), kp.public_key.exponent,
                                    kp.public_key.modulus)
             decoded_msg == mod_pow(encoded_msg, kp.private_key.exponent,
                                    kp.private_key.modulus)
         IN  IF FromInt(plain_msg) = decoded_msg THEN "true" ELSE "false"

(***************************************************************************)
(* Key pairs handed to the engine.  Each entry is a pair with the primes   *)
(* it was generated from (<<>> when it is not the product of two primes).  *)
(***************************************************************************)
Entry(e, d, n, primes) ==
    [pair   |-> KeyPair(Key(e, n, PublicKey), Key(d, n, PrivateKey)),
     primes |-> primes]

\* the pair of tests::test_pair and tests::test_encrypt_decrypt:
\* n = 0x9668F701 = 48109 * 52453, e = 0x10001, d = 0x147B7F71
ReferenceModulus == <<1, 247, 104, 150>>
ReferenceEntry ==
    Entry(FromInt(65537), <<113, 127, 123, 20>>, ReferenceModulus, <<48109, 52453>>)

\* 24-bit modulus 3517 * 3527 above the test value
Entry24 == Entry(FromInt(5), FromInt(3719225), FromInt(12404459), <<3517, 3527>>)

\* 23-bit modulus 2887 * 2903
Entry23 == Entry(FromInt(5), FromInt(3350069), FromInt(8380961), <<2887, 2903>>)

\* 8-bit modulus 11 * 13
Entry8 == Entry(FromInt(7), FromInt(43), FromInt(143), <<11, 13>>)

\* 4-bit modulus 3 * 5
Entry4 == Entry(FromInt(3), FromInt(3), FromInt(15), <<3, 5>>)

\* prime modulus with e = 1 and d = 1 + (n - 1) / 2: the test value is a
\* quadratic residue, so it survives the round trip, other values do not
EntryPrime == Entry(FromInt(1), FromInt(6172894), FromInt(12345787), <<>>)

\* Entry24 with the two role tags exchanged
EntrySwapped ==
    [pair   |-> KeyPair(Key(FromInt(5), FromInt(12404459), PrivateKey),
                        Key(FromInt(3719225), FromInt(12404459), PublicKey)),
     primes |-> <<3517, 3527>>]

\* Entry24 with the lowest bit of the private modulus flipped
EntryModulus ==
    [pair   |-> KeyPair(Key(FromInt(5), FromInt(12404459), PublicKey),
                        Key(FromInt(3719225), FromInt(12404458), PrivateKey)),
     primes |-> <<3517, 3527>>]

\* Entry24 with the public exponent 5 + 3 * lcm(3516, 3526) above the modulus
EntryExponent ==
    Entry(FromInt(18596129), FromInt(3719225), FromInt(12404459), <<3517, 3527>>)

\* the modulus zero with the exponents zero: the structural test passes
EntryZero == Entry(<<>>, <<>>, <<>>, <<>>)

\* the modulus zero under the public exponent 3
EntryZeroModulus == Entry(FromInt(3), FromInt(3), <<>>, <<>>)

Catalogue ==
    {ReferenceEntry, Entry24, Entry23, Entry8, Entry4, EntryPrime,
     EntrySwapped, EntryModulus, EntryExponent, EntryZero, EntryZeroModulus}

(***************************************************************************)
(* Block cipher engine (encryption.rs)                                     *)
(***************************************************************************)
ENCRYPTION_BYTE_OFFSET == 1

\* (bits - 1) / 8: one byte short when the bit length is a multiple of 8
size_in_bytes_of_top_bit(x) == (bits(x) - 1) \div 8

\* SizeInBytes::size_in_bytes
size_in_bytes(x) == bits(x) \div 8

Min(a, b) == IF a <= b THEN a ELSE b

Zeros(k) == [i \in 1..k |-> 0]

\* the source files: every byte sequence of at most MaxLen bytes
Inputs == UNION {[1..k -> FileBytes] : k \in 0..MaxLen}

\* the streams opened whatever the role of the key
opens_streams_unchecked(k, required) == TRUE

\* assert_eq!(self.variant, ...) precedes open_input_output: the streams are
\* opened only for a key of the required role
opens_streams(k, required) == k.variant = required

\* the full modulus size taken as the read size
encrypt_max_bytes_read_no_offset(k) == size_in_bytes(k.modulus)

\* max_bytes_read of encrypt_file (negative: the usize subtraction overflows)
encrypt_max_bytes_read(k) == size_in_bytes(k.modulus) - ENCRYPTION_BYTE_OFFSET

\* the modulus size taken as the block width
encrypt_max_bytes_write_no_offset(k) == size_in_bytes(k.modulus)

\* max_bytes_write of encrypt_file
encrypt_max_bytes_write(k) == size_in_bytes(k.modulus) + ENCRYPTION_BYTE_OFFSET

\* max_bytes of decrypt_file
decrypt_max_bytes(k) == size_in_bytes(k.modulus) + ENCRYPTION_BYTE_OFFSET

\* the loop left after a full read
loop_condition_inverted(amount, buffer_size) == amount # buffer_size

\* while bytes_amount_read == max_bytes_read
loop_condition(amount, buffer_size) == amount = buffer_size

\* no test of the zero read
zero_read_ignored(amount) == FALSE

\* if bytes_amount_read == 0 { break; }
zero_read(amount) == amount = 0

\* Read::read on a file: the number of bytes a buffer of buffer_size bytes
\* receives at position pos
read(file, position, buffer_size) == Min(buffer_size, Len(file) - position)

\* source_bytes after fill(0u8) and the read at position pos
filled(file, position, buffer_size) ==
    [i \in 1..buffer_size |->
        IF position + i <= Len(file) THEN file[position + i] ELSE 0]

\* destiny_bytes of encrypt_file: the encoding of `encrypted` followed by
\* size_diff zero bytes (size_diff < 0: the usize subtraction overflows)
padded(bytes, width) ==
    IF width >= Len(bytes) THEN bytes \o Zeros(width - Len(bytes)) ELSE bytes

\* one block of encrypt_file: decode, exponentiate, encode, pad
encrypt_block(buffer, k, width) ==
    CHOOSE block \in
        { [message       |-> from_bytes_le(buffer),
           encrypted     |-> c,
           size_diff     |-> width - Len(to_bytes_le(c)),
           destiny_bytes |-> padded(to_bytes_le(c), width)] :
          c \in {modpow(from_bytes_le(buffer), k.exponent, k.modulus)} } : TRUE

\* the block padded to the block width as encrypt_file does
decrypt_block_padded(buffer, k, width) ==
    CHOOSE block \in
        { [message       |-> m,
           encrypted     |-> from_bytes_le(buffer),
           destiny_bytes |-> padded(to_bytes_le(m), width)] :
          m \in {modpow(from_bytes_le(buffer), k.exponent, k.modulus)} } : TRUE

\* one block of decrypt_file: decode, exponentiate, encode
decrypt_block(buffer, k, width) ==
    CHOOSE block \in
        { [message       |-> m,
           encrypted     |-> from_bytes_le(buffer),
           destiny_bytes |-> to_bytes_le(m)] :
          m \in {modpow(from_bytes_le(buffer), k.exponent, k.modulus)} } : TRUE

(***************************************************************************)
(* State                                                                   *)
(***************************************************************************)
VARIABLES
    pair,               \* the KeyPair the keys are taken from
    primes,             \* the primes the pair was generated from, or <<>>
    valid,              \* outcome of is_valid: "unchecked", "valid", "invalid"
    op,                 \* running operation: "none", "encrypt", "decrypt"
    pc,                 \* "idle", "loop", "done", "panic"
    panic,              \* the place of the panic, "" when there is none
    key,                \* self of the running operation
    plain,              \* content of the file given to the first operation
    round_trip,         \* decrypt_file is reading the output of encrypt_file
    opened,             \* open_input_output has returned the two streams
    file_in,            \* content of the input stream
    pos,                \* bytes of file_in consumed
    file_out,           \* content of the output stream
    chunks,             \* the writes to file_out, one element per write
    max_bytes_read,     \* encrypt_file: size of source_bytes
    max_bytes_write,    \* encrypt_file: block width
    max_bytes,          \* decrypt_file: size of source_bytes
    bytes_amount_read,
    source_bytes,
    destiny_bytes,
    message,
    encrypted

keys == <<pair, primes, valid>>
call == <<op, key, plain, round_trip, opened, file_in>>
sizes == <<max_bytes_read, max_bytes_write, max_bytes>>
buffers == <<source_bytes, destiny_bytes, message, encrypted>>
output == <<file_out, chunks>>
vars == <<keys, call, sizes, buffers, output, pc, panic, pos, bytes_amount_read>>

\* the state after the construction of a pair of the given entries
Start(entries) ==
    /\ \E entry \in entries : pair = entry.pair /\ primes = entry.primes
    /\ valid = "unchecked"
    /\ op = "none" /\ pc = "idle" /\ panic = ""
    /\ key = NoKey /\ plain = <<>> /\ round_trip = FALSE
    /\ opened = FALSE /\ file_in = <<>> /\ pos = 0
    /\ file_out = <<>> /\ chunks = <<>>
    /\ max_bytes_read = 0 /\ max_bytes_write = 0 /\ max_bytes = 0
    /\ bytes_amount_read = 0
    /\ source_bytes = <<>> /\ destiny_bytes = <<>>
    /\ message = <<>> /\ encrypted = <<>>

Init == Start(Catalogue)

\* the caller checks the pair it obtained
Validate ==
    /\ pc = "idle" /\ valid = "unchecked"
    /\ \E result \in {is_valid(pair)} :
          IF result = "panic"
          THEN /\ pc' = "panic" /\ panic' = "mod_pow"
               /\ UNCHANGED valid
          ELSE /\ valid' = IF result = "true" THEN "valid" ELSE "invalid"
               /\ UNCHANGED <<pc, panic>>
    /\ UNCHANGED <<pair, primes, call, sizes, buffers, output, pos,
                   bytes_amount_read>>

\* encrypt_file up to the loop: assertion, streams, buffer sizes
EncryptFile(k, content) ==
    /\ pc = "idle" /\ valid # "unchecked"
    /\ op' = "encrypt" /\ key' = k /\ plain' = content
    /\ opened' = opens_streams(k, PublicKey)
    /\ file_in' = IF opened' THEN content ELSE <<>>
    /\ IF k.variant # PublicKey
       THEN /\ pc' = "panic" /\ panic' = "assert_eq"
            /\ UNCHANGED <<sizes, bytes_amount_read, source_bytes>>
       ELSE IF encrypt_max_bytes_read(k) < 0
       THEN /\ pc' = "panic" /\ panic' = "max_bytes_read"
            /\ UNCHANGED <<sizes, bytes_amount_read, source_bytes>>
       ELSE /\ pc' = "loop" /\ panic' = ""
            /\ max_bytes_read' = encrypt_max_bytes_read(k)
            /\ max_bytes_write' = encrypt_max_bytes_write(k)
            /\ source_bytes' = Zeros(max_bytes_read')
            /\ bytes_amount_read' = max_bytes_read'
            /\ UNCHANGED max_bytes
    /\ UNCHANGED <<keys, round_trip, output, pos, destiny_bytes, message,
                   encrypted>>

\* one pass of the loop of encrypt_file
EncryptIteration ==
    /\ op = "encrypt" /\ pc = "loop"
    /\ loop_condition(bytes_amount_read, max_bytes_read)
    /\ bytes_amount_read' = read(file_in, pos, max_bytes_read)
    /\ source_bytes' = filled(file_in, pos, max_bytes_read)
    /\ pos' = pos + bytes_amount_read'
    /\ IF zero_read(bytes_amount_read')
       THEN /\ pc' = "done"
            /\ UNCHANGED <<panic, destiny_bytes, message, encrypted, output>>
       ELSE IF modpow_panics(key.modulus)
       THEN /\ pc' = "panic" /\ panic' = "modpow"
            /\ message' = from_bytes_le(source_bytes')
            /\ UNCHANGED <<destiny_bytes, encrypted, output>>
       ELSE \E block \in {encrypt_block(source_bytes', key, max_bytes_write)} :
                /\ message' = block.message
                /\ encrypted' = block.encrypted
                /\ destiny_bytes' = block.destiny_bytes
                /\ IF block.size_diff < 0
                   THEN /\ pc' = "panic" /\ panic' = "size_diff"
                        /\ UNCHANGED output
                   ELSE /\ pc' = "loop" /\ panic' = ""
                        /\ file_out' = file_out \o block.destiny_bytes
                        /\ chunks' = Append(chunks, block.destiny_bytes)
    /\ UNCHANGED <<keys, call, sizes>>

\* the loop of encrypt_file ends after a short read
EncryptFinish ==
    /\ op = "encrypt" /\ pc = "loop"
    /\ ~loop_condition(bytes_amount_read, max_bytes_read)
    /\ pc' = "done"
    /\ UNCHANGED <<keys, call, sizes, buffers, output, panic, pos,
                   bytes_amount_read>>

\* decrypt_file up to the loop, on the file `content`
decrypt_file_enter(k, content) ==
    /\ op' = "decrypt" /\ key' = k
    /\ opened' = opens_streams(k, PrivateKey)
    /\ file_in' = IF opened' THEN content ELSE <<>>
    /\ pos' = 0 /\ file_out' = <<>> /\ chunks' = <<>>
    /\ destiny_bytes' = <<>> /\ message' = <<>> /\ encrypted' = <<>>
    /\ IF k.variant # PrivateKey
       THEN /\ pc' = "panic" /\ panic' = "assert_eq"
            /\ UNCHANGED <<sizes, bytes_amount_read, source_bytes>>
       ELSE /\ pc' = "loop" /\ panic' = ""
            /\ max_bytes' = decrypt_max_bytes(k)
            /\ source_bytes' = Zeros(max_bytes')
            /\ bytes_amount_read' = max_bytes'
            /\ UNCHANGED <<max_bytes_read, max_bytes_write>>
    /\ UNCHANGED keys

\* decrypt_file called on a file of the caller
DecryptFile(k, content) ==
    /\ pc = "idle" /\ valid # "unchecked"
    /\ plain' = content /\ round_trip' = FALSE
    /\ decrypt_file_enter(k, content)

\* decrypt_file called on the file encrypt_file has written
DecryptEncrypted(k) ==
    /\ op = "encrypt" /\ pc = "done"
    /\ round_trip' = TRUE
    /\ decrypt_file_enter(k, file_out)
    /\ UNCHANGED plain

\* one pass of the loop of decrypt_file
DecryptIteration ==
    /\ op = "decrypt" /\ pc = "loop"
    /\ loop_condition(bytes_amount_read, max_bytes)
    /\ bytes_amount_read' = read(file_in, pos, max_bytes)
    /\ source_bytes' = filled(file_in, pos, max_bytes)
    /\ pos' = pos + bytes_amount_read'
    /\ IF zero_read(bytes_amount_read')
       THEN /\ pc' = "done"
            /\ UNCHANGED <<panic, destiny_bytes, message, encrypted, output>>
       ELSE IF modpow_panics(key.modulus)
       THEN /\ pc' = "panic" /\ panic' = "modpow"
            /\ encrypted' = from_bytes_le(source_bytes')
            /\ UNCHANGED <<destiny_bytes, message, output>>
       ELSE \E block \in {decrypt_block(source_bytes', key, max_bytes)} :
                /\ pc' = "loop" /\ panic' = ""
                /\ message' = block.message
                /\ encrypted' = block.encrypted
                /\ destiny_bytes' = block.destiny_bytes
                /\ file_out' = file_out \o block.destiny_bytes
                /\ chunks' = Append(chunks, block.destiny_bytes)
    /\ UNCHANGED <<keys, call, sizes>>

\* the loop of decrypt_file ends after a short read
DecryptFinish ==
    /\ op = "decrypt" /\ pc = "loop"
    /\ ~loop_condition(bytes_amount_read, max_bytes)
    /\ pc' = "done"
    /\ UNCHANGED <<keys, call, sizes, buffers, output, panic, pos,
                   bytes_amount_read>>

Slots == {pair.public_key, pair.private_key}

Next ==
    \/ Validate
    \/ \E k \in Slots, content \in Inputs : EncryptFile(k, content)
    \/ EncryptIteration
    \/ EncryptFinish
    \/ \E k \in Slots, content \in Inputs : DecryptFile(k, content)
    \/ \E k \in Slots : DecryptEncrypted(k)
    \/ DecryptIteration
    \/ DecryptFinish

Spec == Init /\ [][Next]_vars

\* the engine and the validity check on the pair of the tests only
ReferenceInit == Start({ReferenceEntry})

ReferenceSpec == ReferenceInit /\ [][Next]_vars

\* The termination of the loops depends on the sizes only: it is checked on
\* the pairs of machine-integer moduli, whose sizes are 0, 1, 2 and 3.
LiveCatalogue == Catalogue \ {ReferenceEntry}

LiveInit == Start(LiveCatalogue)

\* a started operation runs on: the engine is one sequential loop
LiveSpec ==
    /\ LiveInit /\ [][Next]_vars
    /\ WF_vars(EncryptIteration \/ EncryptFinish)
    /\ WF_vars(DecryptIteration \/ DecryptFinish)

(***************************************************************************)
(* Vocabulary of the properties                                            *)
(***************************************************************************)
\* S(n) = floor(bit_length(n) / 8)
S(n) == bits(n) \div 8

\* a * b, exactly: the product modulo a power of 256 it cannot reach
Mul(a, b) ==
    CHOOSE r \in { FromLimbs(MulModFrom(la, b, ln, 1)) :
                   la \in {ToLimbs(a)},
                   ln \in {ToLimbs(Zeros(Len(a) + Len(b)) \o <<1>>)} } : TRUE

RECURSIVE GCD(_, _)
GCD(a, b) == IF b = 0 THEN a ELSE GCD(b, a % b)

\* lcm(p - 1, q - 1)
Lambda(p, q) == ((p - 1) \div GCD(p - 1, q - 1)) * (q - 1)

\* p is a prime below 2^16
IsPrime(p) == p > 1 /\ p < 65536 /\ \A d \in 2..255 : d >= p \/ p % d # 0

\* the pair is what key generation produces from the two primes
CorrectlyGenerated ==
    /\ Len(primes) = 2
    /\ pair.public_key.variant = PublicKey
    /\ pair.private_key.variant = PrivateKey
    /\ pair.public_key.modulus = pair.private_key.modulus
    /\ Le(pair.public_key.exponent, pair.public_key.modulus)
    /\ primes[1] # primes[2]
    /\ IsPrime(primes[1]) /\ IsPrime(primes[2])
    /\ pair.public_key.modulus = Mul(FromInt(primes[1]), FromInt(primes[2]))
    /\ LET l == FromInt(Lambda(primes[1], primes[2]))
       IN  MulMod(Mod(pair.public_key.exponent, l),
                  Mod(pair.private_key.exponent, l), l) = <<1>>

\* encrypt_file has entered its loop with a public key
Encrypting == op = "encrypt" /\ pc \in {"loop", "done"}

\* decrypt_file has entered its loop with a private key
Decrypting == op = "decrypt" /\ pc \in {"loop", "done"}

\* decrypt_file has read to the end the file encrypt_file wrote
RoundTripDone == op = "decrypt" /\ pc = "done" /\ round_trip

(***************************************************************************)
(* C1  Round trip                                                          *)
(***************************************************************************)
\* C1: for a pair is_valid accepts, decrypting with the private key what
\* encrypt_file wrote with the public key gives back the source file byte
\* for byte.
C1_RoundTrip ==
    (RoundTripDone /\ valid = "valid" /\ key = pair.private_key)
        => file_out = plain

(***************************************************************************)
(* C2  Block width                                                         *)
(***************************************************************************)
\* C2: with S(n) >= 1, every block encrypt_file writes has S(n) + 1 bytes:
\* the encoding of `encrypted` never exceeds that width (size_diff is never
\* negative) and is followed by zero bytes up to it.
C2_BlockWidth ==
    (op = "encrypt" /\ key.variant = PublicKey /\ S(key.modulus) >= 1)
        => /\ panic = ""
           /\ \A i \in 1..Len(chunks) : Len(chunks[i]) = S(key.modulus) + 1
           /\ chunks # <<>> =>
                LET block == chunks[Len(chunks)]
                    bytes == to_bytes_le(encrypted)
                IN  /\ Len(bytes) <= S(key.modulus) + 1
                    /\ SubSeq(block, 1, Len(bytes)) = bytes
                    /\ \A j \in Len(bytes) + 1 .. Len(block) : block[j] = 0
                    /\ Lt(encrypted, key.modulus)

\* a block whose integer fills the whole width has been written after
\* another one
C2_Witness ==
    /\ op = "encrypt" /\ S(key.modulus) >= 1 /\ Len(chunks) >= 2
    /\ Len(to_bytes_le(encrypted)) = S(key.modulus) + 1

(***************************************************************************)
(* C3  Block count                                                         *)
(***************************************************************************)
\* C3: with R = S(n) - 1 >= 1, encrypt_file ends having written
\* ceil(L / R) blocks for a source of L bytes.
C3_BlockCount ==
    (op = "encrypt" /\ pc = "done" /\ S(key.modulus) - 1 >= 1)
        => LET R == S(key.modulus) - 1
           IN  Len(chunks) = (Len(plain) + R - 1) \div R

\* a source of exactly two full reads gave two blocks
C3_Witness ==
    /\ op = "encrypt" /\ pc = "done" /\ S(key.modulus) - 1 >= 1
    /\ Len(plain) = 2 * (S(key.modulus) - 1)
    /\ Len(chunks) = 2

(***************************************************************************)
(* C4  is_valid, case by case                                              *)
(***************************************************************************)
\* the value the claim gives to is_valid on the pair
C4_Value ==
    IF \/ pair.public_key.variant # PublicKey
       \/ pair.private_key.variant # PrivateKey
       \/ pair.public_key.modulus # pair.private_key.modulus
       \/ Lt(pair.public_key.modulus, pair.public_key.exponent)
    THEN "invalid"
    ELSE IF modpow(modpow(FromInt(12345678),
                          pair.public_key.exponent,
                          pair.public_key.modulus),
                   pair.private_key.exponent,
                   pair.public_key.modulus) = FromInt(12345678)
    THEN "valid" ELSE "invalid"

C5_Generated ==
    (pc = "idle" /\ valid # "unchecked" /\ CorrectlyGenerated)
        => valid = "valid"

\* C5 (amended): is_valid answers true for every correctly generated pair
\* whose modulus is above 12345678; the reference pair is such a pair.
C5_GeneratedAboveTestValue ==
    (pc = "idle" /\ valid # "unchecked")
        => /\ (CorrectlyGenerated
               /\ Lt(FromInt(12345678), pair.public_key.modulus))
                    => valid = "valid"
           /\ pair = ReferenceEntry.pair
                    => /\ CorrectlyGenerated
                       /\ Lt(FromInt(12345678), pair.public_key.modulus)

\* the reference pair has been checked and found valid
C5_Witness ==
    /\ pc = "idle" /\ valid = "valid"
    /\ pair.public_key.modulus = <<1, 247, 104, 150>>
    /\ pair.public_key.exponent = FromInt(65537)
    /\ pair.private_key.exponent = <<113, 127, 123, 20>>

(***************************************************************************)
(* C6  Sizes for the reference modulus                                     *)
(***************************************************************************)
\* C6: for n = 0x9668F701, S(n) = 3: encrypt_file reads at most 2 bytes and
\* writes blocks of 4 bytes, decrypt_file reads blocks of 4 bytes.
C6_ReferenceSizes ==
    (key.modulus = <<1, 247, 104, 150>> /\ pc \in {"loop", "done"})
        => /\ size_in_bytes(key.modulus) = 3
           /\ op = "encrypt" => /\ max_bytes_read = 2
                                /\ bytes_amount_read <= 2
                                /\ max_bytes_write = 4
                                /\ \A i \in 1..Len(chunks) : Len(chunks[i]) = 4
           /\ op = "decrypt" => max_bytes = 4 /\ bytes_amount_read <= 4

\* C6 (amended): for n = 0x9668F701, S(n) = 4: encrypt_file reads at most 3
\* bytes and writes blocks of 5 bytes, decrypt_file reads blocks of 5 bytes.
C6_ReferenceSizesFour ==
    (key.modulus = <<1, 247, 104, 150>> /\ pc \in {"loop", "done"})
        => /\ size_in_bytes(key.modulus) = 4
           /\ op = "encrypt" => /\ max_bytes_read = 3
                                /\ bytes_amount_read <= 3
                                /\ max_bytes_write = 5
                                /\ \A i \in 1..Len(chunks) : Len(chunks[i]) = 5
           /\ op = "decrypt" => max_bytes = 5 /\ bytes_amount_read <= 5

\* under the reference pair a file longer than one read has been encrypted
\* and the result decrypted
C6_Witness ==
    /\ key.modulus = <<1, 247, 104, 150>>
    /\ RoundTripDone /\ key.variant = PrivateKey
    /\ Len(plain) > 3 /\ Len(chunks) = 2

(***************************************************************************)
(* C7  Role contract                                                       *)
(***************************************************************************)
\* C7: encrypt_file with a PrivateKey and decrypt_file with a PublicKey
\* abort at the assertion, before a stream is opened, a byte read or a byte
\* written.
C7_RoleContract ==
    (\/ op = "encrypt" /\ key.variant = PrivateKey
     \/ op = "decrypt" /\ key.variant = PublicKey)
        => /\ pc = "panic" /\ panic = "assert_eq"
           /\ ~opened /\ file_in = <<>> /\ pos = 0
           /\ file_out = <<>> /\ chunks = <<>>

\* decrypt_file has been called with a public key on an encrypted file
C7_Witness ==
    /\ op = "decrypt" /\ key.variant = PublicKey /\ round_trip
    /\ pc = "panic"

(***************************************************************************)
(* C8  Plaintext bound                                                     *)
(***************************************************************************)
\* C8: with R = S(n) - 1 >= 1, the integer encrypt_file decodes from its
\* R-byte buffer is below n.
C8_PlaintextBound ==
    (Encrypting /\ S(key.modulus) - 1 >= 1)
        => /\ Len(source_bytes) = S(key.modulus) - 1
           /\ Lt(from_bytes_le(source_bytes), key.modulus)
           /\ Lt(message, key.modulus)

\* a buffer of 0xFF bytes only has been encrypted
C8_Witness ==
    /\ Encrypting /\ S(key.modulus) - 1 >= 1 /\ chunks # <<>>
    /\ \A i \in 1..Len(source_bytes) : source_bytes[i] = 255
    /\ message = from_bytes_le(source_bytes)

(***************************************************************************)
(* C9  Decrypted chunks                                                    *)
(***************************************************************************)
\* every chunk decrypt_file wrote is a minimal encoding, the last one that
\* of `message`
MinimalChunks ==
    /\ \A i \in 1..Len(chunks) :
          /\ Len(chunks[i]) >= 1
          /\ chunks[i] = <<0>> \/ chunks[i][Len(chunks[i])] # 0
    /\ chunks # <<>> =>
          /\ from_bytes_le(chunks[Len(chunks)]) = message
          /\ message = <<>> => chunks[Len(chunks)] = <<0>>
          /\ Lt(message, key.modulus)

\* every chunk has at most R = S(n) - 1 bytes
ShortChunks ==
    \A i \in 1..Len(chunks) : Len(chunks[i]) <= S(key.modulus) - 1

\* C9: decrypt_file writes the minimal encoding of each message; on what
\* encrypt_file wrote under the other key of a valid pair, every chunk has
\* at most R bytes.
C9_Chunks ==
    Decrypting
        => /\ MinimalChunks
           /\ (round_trip /\ valid = "valid" /\ key = pair.private_key)
                => ShortChunks

\* C9 (amended): decrypt_file writes the minimal encoding of each message;
\* on what encrypt_file wrote under the other key of a correctly generated
\* pair, every chunk has at most R bytes.
C9_ChunksGenerated ==
    Decrypting
        => /\ MinimalChunks
           /\ (round_trip /\ key = pair.private_key /\ CorrectlyGenerated)
                => ShortChunks

\* a file of two blocks, one of them the integer 0, has been decrypted under
\* a generated pair
C9_Witness ==
    /\ RoundTripDone /\ key = pair.private_key /\ CorrectlyGenerated
    /\ Len(chunks) = 2
    /\ \E i \in 1..2 : chunks[i] = <<0>>
    /\ \E i \in 1..2 : Len(chunks[i]) = S(key.modulus) - 1

(***************************************************************************)
(* C10  Termination at stream exhaustion                                   *)
(***************************************************************************)
\* C10: with S(n) >= 1, a loop of encrypt_file or decrypt_file that has
\* stopped has consumed the whole input.
C10_Exhausted ==
    (pc = "done" /\ op \in {"encrypt", "decrypt"} /\ S(key.modulus) >= 1)
        => pos = Len(file_in)

\* the loops the amended claim is about: encrypt_file with R = S(n) - 1 >= 1,
\* decrypt_file with S(n) >= 1
C10_Covered ==
    \/ op = "encrypt" /\ S(key.modulus) >= 2
    \/ op = "decrypt" /\ S(key.modulus) >= 1

\* C10 (amended): the loop of encrypt_file with S(n) >= 2 and the loop of
\* decrypt_file with S(n) >= 1 terminate, and a stopped loop has consumed
\* the whole input.
C10_Terminates ==
    /\ [](pc = "done" /\ C10_Covered => pos = Len(file_in))
    /\ (pc = "loop" /\ C10_Covered) ~> (pc = "done")

\* encrypt_file has stopped after more than one read of a file
C10_Witness ==
    /\ pc = "done" /\ op = "encrypt" /\ S(key.modulus) >= 2
    /\ Len(plain) > max_bytes_read /\ pos = Len(plain)

====
